---- MODULE Spec2Model ----
(***************************************************************************)
(* household-power (src/src/main.rs): a serial XML telemetry reader.       *)
(*                                                                         *)
(* The program is modelled at the granularity of its blocking calls: one   *)
(* step per call of EventReader::next (with all the matching code that     *)
(* runs until the next read or until run_parser returns), one per          *)
(* init_serial call, one per pass through the body of the session loop,    *)
(* one per Festivus insert call and one per pass through main's loop.      *)
(* The recursion of run_parser/parse_tag is kept as an explicit stack of   *)
(* frames, each frame recording the source line at which it is suspended.  *)
(*                                                                         *)
(* The Event Source (xml-rs over the serial port) is the environment: at   *)
(* each read it returns the next event of the message the device is        *)
(* sending, or any other event, or an error.                               *)
(***************************************************************************)
EXTENDS Integers, Sequences, FiniteSets, TLC

VARIABLES
    pc,         \* where main/main_with_result is suspended
    stack,      \* frames of run_parser/parse_tag, outermost first
    ret,        \* value returned by the last completed run_parser call
    args,       \* arguments of the pending client.insert call
    printed,    \* lines written by println! in the last step
    last,       \* which call the last step performed, and how it ended
    srcFailed,  \* the session's EventReader has returned an Err
    idx,        \* environment: events of the current device message delivered
    vals,       \* environment: texts of the current device message
    att,        \* observer: shape of what the current match attempt has read
    ins,        \* observer: open elements of an inserted sibling
    dev,        \* observer: the first event that left the well-formed shape
    order,      \* observer: the children begun by a message that has them out of order
    quiet,      \* the parser of a second run that is given no ignorable event
    handed,     \* observer: what next_tag returned to its caller in the last step
    dropped,    \* observer: the current match attempt has read an Err and gone on
    junk        \* environment: disturbances spent (fair specification only)

vars == <<pc, stack, ret, args, printed, last, srcFailed,
          idx, vals, att, ins, dev, order, quiet, handed, dropped, junk>>

(***************************************************************************)
(* Bounds of the model.                                                    *)
(***************************************************************************)
MaxDepth == 2       \* nesting depth the observer follows inside an inserted sibling
MaxJunk == 2        \* disturbances the environment may cause in the fair specification

(***************************************************************************)
(* Events of xml::reader::XmlEvent and the Result of EventReader::next.    *)
(***************************************************************************)
Names == {"msg", "time", "tmpr", "ch1", "ch2", "ch3", "watts", "foo"}
Texts == {<<"5">>, <<"2", "0">>, <<"x">>}
NoText == <<>>

Ev(kind, name, text) == [kind |-> kind, name |-> name, text |-> text]
StartElement(n) == Ev("StartElement", n, NoText)
EndElement(n) == Ev("EndElement", n, NoText)
Characters(t) == Ev("Characters", "", t)
XmlError == Ev("Err", "", NoText)
NoEv == Ev("none", "", NoText)

(* The ignored tag types without Whitespace. *)
IgnoredTagTypes_no_whitespace ==
    {"StartDocument", "ProcessingInstruction", "CData", "Comment"}

IgnoredTagTypes ==
    {"StartDocument", "ProcessingInstruction", "CData", "Comment", "Whitespace"}

(* The ignorable events of the event model: document start, processing    *)
(* instruction, raw block, comment, whitespace-only text.                  *)
Ignorable ==
    {"StartDocument", "ProcessingInstruction", "CData", "Comment", "Whitespace"}

SignificantEvents ==
    {StartElement(n) : n \in Names} \cup {EndElement(n) : n \in Names}
        \cup {Characters(t) : t \in Texts}
IgnorableEvents == {Ev(k, "", NoText) : k \in Ignorable}
EndDocument == Ev("EndDocument", "", NoText)

(***************************************************************************)
(* HashMap<&'static str, String> as a function on the keys present.        *)
(***************************************************************************)
EmptyMap == <<>>
Insert(m, k, v) == (k :> v) @@ m
Extend(m, other) == other @@ m

(***************************************************************************)
(* Result<HashMap, Box<Error>> of run_parser.                              *)
(***************************************************************************)
Pending == [ok |-> FALSE, data |-> EmptyMap, err |-> "pending"]
Ok(r) == [ok |-> TRUE, data |-> r, err |-> ""]
string_error(s) == [ok |-> FALSE, data |-> EmptyMap, err |-> s]
FromXmlError == [ok |-> FALSE, data |-> EmptyMap, err |-> "XmlError"]

(***************************************************************************)
(* enum Parser and the grammar built in main_with_result.                  *)
(***************************************************************************)
Top(tag, subs) == [kind |-> "Top", tag |-> tag, key |-> "", subs |-> subs]
Tag(tag, subs) == [kind |-> "Tag", tag |-> tag, key |-> "", subs |-> subs]
Contents(tag, key) == [kind |-> "Contents", tag |-> tag, key |-> key, subs |-> <<>>]

tag_name(p) == p.tag

(* The grammar with the hot-water key written as one word. *)
parser_hotwater ==
    Top("msg", <<
        Contents("time", "time"),
        Contents("tmpr", "temperature"),
        Tag("ch1", <<Contents("watts", "total")>>),
        Tag("ch2", <<Contents("watts", "hotwater")>>),
        Tag("ch3", <<Contents("watts", "solar")>>)
    >>)

(* The grammar with the keys of ch2 and ch3 exchanged. *)
parser_keys_swapped ==
    Top("msg", <<
        Contents("time", "time"),
        Contents("tmpr", "temperature"),
        Tag("ch1", <<Contents("watts", "total")>>),
        Tag("ch2", <<Contents("watts", "solar")>>),
        Tag("ch3", <<Contents("watts", "hot_water")>>)
    >>)

parser ==
    Top("msg", <<
        Contents("time", "time"),
        Contents("tmpr", "temperature"),
        Tag("ch1", <<Contents("watts", "total")>>),
        Tag("ch2", <<Contents("watts", "hot_water")>>),
        Tag("ch3", <<Contents("watts", "solar")>>)
    >>)

(* A comparison that accepts every name. *)
name_matches_str_any(name, str_name) == name = name

(* Lines 88-90. *)
name_matches_str(name, str_name) == name = str_name

(***************************************************************************)
(* EventReaderExt::next_tag on one Result x of self.next(): an ignored tag *)
(* type makes it call itself, which reads again (Again); an Err and every  *)
(* other event are handed to the caller.                                   *)
(***************************************************************************)
Again == Ev("again", "", NoText)

next_tag(x) ==
    IF x.kind = "Err" THEN x
    ELSE IF x.kind \in IgnoredTagTypes THEN Again
    ELSE x

(* read_to_tag_end breaking at the End of any element. *)
read_to_tag_end_any_end(x, tag) ==
    x.kind = "EndElement"

(* EventReaderExt::read_to_tag_end on one result x of next_tag: TRUE when  *)
(* the loop breaks, FALSE when it goes round again (any other event, and   *)
(* an Err as well).                                                        *)
read_to_tag_end(x, tag) ==
    x.kind = "EndElement" /\ x.name = tag

(***************************************************************************)
(* Frames. `at` is the source line at which the frame waits: 101, 122 and  *)
(* 140 for the next_tag calls of run_parser and parse_tag, 107, 126, 151   *)
(* and 159 for the four calls of read_to_tag_end (skip holds the tag name  *)
(* given at 107 and 151), 145 for the recursive run_parser call.  `p` is   *)
(* the reference to the frame's Parser, kept as the path of subparser      *)
(* indices that leads to it from the grammar.                              *)
(***************************************************************************)
Frame(at, p, i, result, skip) ==
    [at |-> at, p |-> p, i |-> i, result |-> result, skip |-> skip]

Front(s) == SubSeq(s, 1, Len(s) - 1)
TopFrame(stk) == stk[Len(stk)]
Replace(stk, f) == Append(Front(stk), f)

RECURSIVE Deref(_)
Deref(p) == IF p = <<>> THEN parser ELSE Deref(Front(p)).subs[p[Len(p)]]

Running(stk) == [stack |-> stk, ret |-> Pending]
(* A failure turned into the empty Record. *)
Bail_as_record(e) == [stack |-> <<>>, ret |-> Ok(EmptyMap)]

(* `return string_error(..)` in a frame, with the try! of line 145 and the *)
(* tail calls of lines 115 and 118 in every enclosing frame: run_parser    *)
(* returns e to the session loop.                                          *)
Bail(e) == [stack |-> <<>>, ret |-> e]

(* parse_tag up to its first read: the for loop over subparsers starts at  *)
(* the first subparser, or falls through to line 159 when there is none.   *)
enter_parse_tag(p) ==
    Frame(IF Deref(p).subs = <<>> THEN "159" ELSE "140", p, 1, EmptyMap, "")

(* run_parser up to its first read. *)
enter_run_parser(p) ==
    CASE Deref(p).kind = "Top" -> Frame("101", p, 0, EmptyMap, "")
      [] Deref(p).kind = "Tag" -> enter_parse_tag(p)
      [] Deref(p).kind = "Contents" -> Frame("122", p, 0, EmptyMap, "")

(* A frame returns Ok(r): to the session loop when it is the outermost,    *)
(* otherwise to parse_tag at line 145, which extends its result, breaks    *)
(* the inner loop and goes on with the next subparser or with line 159.    *)
return_ok(callers, r) ==
    IF callers = <<>> THEN [stack |-> <<>>, ret |-> Ok(r)]
    ELSE LET f == TopFrame(callers)
             merged == Extend(f.result, r)
         IN  Running(Replace(callers,
                 IF f.i < Len(Deref(f.p).subs)
                 THEN [f EXCEPT !.at = "140", !.i = f.i + 1, !.result = merged]
                 ELSE [f EXCEPT !.at = "159", !.result = merged]))

(* Line 154 reporting the failure of line 124. *)
out_of_sync_as_missing(x) == string_error("Tag contents not found for tag parser")

(* Line 154: any result of next_tag that is not a StartElement. *)
out_of_sync(x) == string_error("XML stream out of sync with parser")

(* parse_tag on one result x of next_tag, for a frame waiting at 140, 151  *)
(* or 159.                                                                 *)
parse_tag(stk, x) ==
    LET f == TopFrame(stk)
        tag == Deref(f.p).tag
        subparsers == Deref(f.p).subs
    IN
    CASE f.at = "140" ->
            IF x.kind = "StartElement"
            THEN IF name_matches_str(x.name, tag_name(subparsers[f.i]))
                 THEN Running(Append(Replace(stk, [f EXCEPT !.at = "145"]),
                                     enter_run_parser(Append(f.p, f.i))))
                 ELSE Running(Replace(stk, [f EXCEPT !.at = "151", !.skip = x.name]))
            ELSE Bail(out_of_sync(x))
      [] f.at = "151" ->
            IF read_to_tag_end(x, f.skip)
            THEN Running(Replace(stk, [f EXCEPT !.at = "140", !.skip = ""]))
            ELSE Running(stk)
      [] f.at = "159" ->
            IF read_to_tag_end(x, tag)
            THEN return_ok(Front(stk), f.result)
            ELSE Running(stk)

(* run_parser on one result x of next_tag, for a frame waiting at 101,     *)
(* 107, 122 or 126; Top and Tag hand over to parse_tag.                    *)
run_parser(stk, x) ==
    LET f == TopFrame(stk)
        tag == Deref(f.p).tag
        key_name == Deref(f.p).key
    IN
    CASE f.at = "101" ->
            IF x.kind = "Err" THEN Bail(FromXmlError)
            ELSE IF x.kind = "StartElement" /\ name_matches_str(x.name, tag)
            THEN Running(Replace(stk, enter_parse_tag(f.p)))
            ELSE IF x.kind = "StartElement"
            THEN Running(Replace(stk, [f EXCEPT !.at = "107", !.skip = x.name]))
            ELSE Bail(string_error("Junk event"))
      [] f.at = "107" ->
            IF read_to_tag_end(x, f.skip)
            THEN Bail(string_error("Wrong start tag"))
            ELSE Running(stk)
      [] f.at = "122" ->
            IF x.kind = "Characters"
            THEN Running(Replace(stk,
                     [f EXCEPT !.at = "126", !.result = Insert(EmptyMap, key_name, x.text)]))
            ELSE Bail(string_error("Tag contents not found for tag parser"))
      [] f.at = "126" ->
            IF read_to_tag_end(x, tag)
            THEN return_ok(Front(stk), f.result)
            ELSE Running(stk)
      [] OTHER -> parse_tag(stk, x)

(* One call of self.next() returning r, seen from the suspended parser. *)
on_next(stk, r) ==
    IF next_tag(r) = Again THEN Running(stk) ELSE run_parser(stk, next_tag(r))

(***************************************************************************)
(* str::parse of a captured text, lines 200-202: the decimal value of a    *)
(* string of digits, an error for anything else.                           *)
(***************************************************************************)
Digits == {"0", "1", "2", "3", "4", "5", "6", "7", "8", "9"}
DigitValue(c) ==
    CASE c = "0" -> 0 [] c = "1" -> 1 [] c = "2" -> 2 [] c = "3" -> 3 [] c = "4" -> 4
      [] c = "5" -> 5 [] c = "6" -> 6 [] c = "7" -> 7 [] c = "8" -> 8 [] c = "9" -> 9

RECURSIVE DecimalValue(_)
DecimalValue(s) ==
    IF s = <<>> THEN 0
    ELSE 10 * DecimalValue(Front(s)) + DigitValue(s[Len(s)])

str_parse(s) ==
    IF s # <<>> /\ \A k \in 1..Len(s) : s[k] \in Digits
    THEN [ok |-> TRUE, val |-> DecimalValue(s)]
    ELSE [ok |-> FALSE, val |-> 0]

(***************************************************************************)
(* The body of the loop of main_with_result, lines 190-207, split at the   *)
(* blocking client.insert call.                                            *)
(***************************************************************************)
Control(p, out, a) == [pc |-> p, printed |-> out, args |-> a]

(* The Err arm written with try!: the error leaves main_with_result. *)
parse_error_arm_try(e) == Control("main_ret", <<>>, <<>>)

(* Lines 193-196: the Err arm prints and continues the loop. *)
parse_error_arm(e) == Control("read", <<"Parse error">>, <<>>)

(* client.insert called with the first two arguments exchanged. *)
insert_args_reordered(total, hot_water, solar) == <<hot_water, total, solar>>

(* Line 204: the argument order of client.insert. *)
insert_args(total, hot_water, solar) == <<total, hot_water, solar>>

(* The Ok arm skipping a record whose readings do not parse. *)
record_arm_skip(data) ==
    LET Panic == Control("panicked", <<"data">>, <<>>)
        Failed == Control("read", <<"data">>, <<>>)
    IN
    IF "total" \notin DOMAIN data THEN Panic
    ELSE IF ~ str_parse(data["total"]).ok THEN Failed
    ELSE IF "hot_water" \notin DOMAIN data THEN Panic
    ELSE IF ~ str_parse(data["hot_water"]).ok THEN Failed
    ELSE IF "solar" \notin DOMAIN data THEN Panic
    ELSE IF ~ str_parse(data["solar"]).ok THEN Failed
    ELSE Control("insert", <<"data">>,
                 insert_args(str_parse(data["total"]).val,
                             str_parse(data["hot_water"]).val,
                             str_parse(data["solar"]).val))

(* Lines 198-204: print the record; for total, hot_water and solar in turn *)
(* index it (a missing key panics) and parse the text with try!; then call *)
(* client.insert.                                                          *)
record_arm(data) ==
    LET Panic == Control("panicked", <<"data">>, <<>>)
        Failed == Control("main_ret", <<"data">>, <<>>)
    IN
    IF "total" \notin DOMAIN data THEN Panic
    ELSE IF ~ str_parse(data["total"]).ok THEN Failed
    ELSE IF "hot_water" \notin DOMAIN data THEN Panic
    ELSE IF ~ str_parse(data["hot_water"]).ok THEN Failed
    ELSE IF "solar" \notin DOMAIN data THEN Panic
    ELSE IF ~ str_parse(data["solar"]).ok THEN Failed
    ELSE Control("insert", <<"data">>,
                 insert_args(str_parse(data["total"]).val,
                             str_parse(data["hot_water"]).val,
                             str_parse(data["solar"]).val))

(* client.insert called with try!: its Err leaves main_with_result. *)
insert_arm_try(ok) ==
    IF ok THEN Control("read", <<>>, <<>>) ELSE Control("main_ret", <<>>, <<>>)

(* Lines 204-206: an Err of client.insert is printed, and the loop goes on. *)
insert_arm(ok) ==
    Control("read", IF ok THEN <<>> ELSE <<"Error connecting to Festivus">>, <<>>)

(* main written with `if let ... { println!; break }`: it returns. *)
main_err_arm_break == Control("exited", <<"main_with_result error">>, <<>>)

(* Lines 211-215: the Err of main_with_result is printed and main's loop   *)
(* calls main_with_result again.                                           *)
main_err_arm == Control("init_serial", <<"main_with_result error">>, <<>>)

(***************************************************************************)
(* The device and the Event Source.  The device sends messages of the      *)
(* shape WellFormed; idx counts the events of the current message that     *)
(* have been delivered.  At each read the source delivers the next event   *)
(* of the message ("deliver"), or the device drops the rest of the message *)
(* and starts a new one ("restart"), or the source returns an ignorable    *)
(* event ("noise"), or any other event or an error ("junk").  Every event  *)
(* and the error are possible at every read.                               *)
(***************************************************************************)
Fields == {"time", "temperature", "total", "hot_water", "solar"}
Slot(kind, name, field) == [kind |-> kind, name |-> name, field |-> field]
Leaf(name, field) ==
    <<Slot("StartElement", name, ""), Slot("Characters", "", field),
      Slot("EndElement", name, "")>>
Channel(name, field) ==
    <<Slot("StartElement", name, "")>> \o Leaf("watts", field)
        \o <<Slot("EndElement", name, "")>>

WellFormed ==
    <<Slot("StartElement", "msg", "")>>
        \o Leaf("time", "time") \o Leaf("tmpr", "temperature")
        \o Channel("ch1", "total") \o Channel("ch2", "hot_water")
        \o Channel("ch3", "solar")
        \o <<Slot("EndElement", "msg", "")>>
MsgLen == Len(WellFormed)

NoVals == [f \in Fields |-> NoText]

SlotEvents(k) ==
    LET s == WellFormed[k] IN
    IF s.kind = "Characters" THEN {Characters(t) : t \in Texts}
    ELSE {Ev(s.kind, s.name, NoText)}

Choice(op, ev) == [op |-> op, ev |-> ev]
Choices ==
    {Choice("deliver", e) : e \in SlotEvents(idx + 1)}
        \cup {Choice("restart", e) : e \in IF idx > 0 THEN SlotEvents(1) ELSE {}}
        \cup {Choice("noise", e) : e \in IgnorableEvents}
        \cup {Choice("junk", e) :
                e \in (SignificantEvents \cup {EndDocument, XmlError}) \ SlotEvents(idx + 1)}

(* A disturbance, which the fair specification allows MaxJunk times. *)
Costly(c) ==
    \/ c.op # "deliver"
    \/ c.ev.kind = "Characters" /\ ~ str_parse(c.ev.text).ok

BaseIdx(c) == IF c.op = "restart" THEN 0 ELSE idx
NextIdx(c) ==
    IF c.op \in {"deliver", "restart"} THEN (BaseIdx(c) + 1) % MsgLen ELSE idx
NextVals(c) ==
    IF c.op \in {"deliver", "restart"}
    THEN LET s == WellFormed[BaseIdx(c) + 1]
             v == IF BaseIdx(c) = 0 THEN NoVals ELSE vals
         IN  IF s.kind = "Characters" THEN [v EXCEPT ![s.field] = c.ev.text] ELSE v
    ELSE vals

(***************************************************************************)
(* The observer classifies what the current match attempt has read so far: *)
(*   "wf"   a prefix of one well-formed message, read from its first       *)
(*          event (ignored events apart);                                  *)
(*   "ins"  the same with unrecognized sibling elements inserted between   *)
(*          children of msg, each properly nested (ins: the open elements  *)
(*          of the sibling being read), with nested elements that have the *)
(*          sibling's name or the name foo, up to depth MaxDepth (where    *)
(*          all texts so far are "5", an element named as a child that is  *)
(*          due later is followed as "perm" instead);                      *)
(*   "dev"  a well-formed prefix followed by exactly one other event, dev, *)
(*          on which run_parser returned;                                  *)
(*   "top"  a first significant event that is not Start(msg): either the   *)
(*          Start of another element, followed by its properly nested      *)
(*          content (ins: its open elements, followed as for "ins"), or an *)
(*          End or a Text (dev);                                           *)
(*   "perm" Start(msg) followed by children of msg, each as in a           *)
(*          well-formed message and none twice, not in the order of a      *)
(*          well-formed message (order.seen: the children begun, order.at: *)
(*          the place in WellFormed of the last event read, MsgLen once    *)
(*          End(msg) has followed all five), every text being "5";         *)
(*   "none" anything else.                                                 *)
(* It starts afresh with every call of run_parser by the session loop.     *)
(* It only watches; nothing the program does reads it.                     *)
(***************************************************************************)
InsertionPoints ==
    {k \in 1..(MsgLen - 1) :
        WellFormed[k].kind = "EndElement" /\ WellFormed[k + 1].kind = "StartElement"}

AtTop == Len(stack) = 1 /\ stack[1].at = "101"

Children == [k \in 1..Len(parser.subs) |-> tag_name(parser.subs[k])]
StartSlot(name) == CHOOSE k \in 1..MsgLen : WellFormed[k] = Slot("StartElement", name, "")
EndSlot(name) == CHOOSE k \in 1..MsgLen : WellFormed[k] = Slot("EndElement", name, "")
Closed(k) == SelectSeq(Children, LAMBDA n : EndSlot(n) <= k)
Range(f) == {f[k] : k \in DOMAIN f}

NoOrder == [seen |-> <<>>, at |-> 0]
OrderText == <<"5">>
OrderEvents(k) ==
    IF WellFormed[k].kind = "Characters" THEN {Characters(OrderText)} ELSE SlotEvents(k)

(* The out-of-order message after the event of c; NoOrder when the events  *)
(* read are not, or no longer, the beginning of one.  It begins where a    *)
(* well-formed prefix, between two children, goes on with a child that is  *)
(* due later.                                                              *)
NextOrder(c) ==
    LET e == c.ev
        child == e.kind = "StartElement" /\ e.name \in Range(Children)
    IN
    IF att = "wf"
    THEN IF /\ idx \in {1} \cup InsertionPoints
            /\ child
            /\ StartSlot(e.name) > idx + 1
            /\ \A f \in Fields : vals[f] \in {NoText, OrderText}
         THEN [seen |-> Append(Closed(idx), e.name), at |-> StartSlot(e.name)]
         ELSE NoOrder
    ELSE IF att = "perm" /\ order.at < MsgLen
    THEN IF order.at # EndSlot(order.seen[Len(order.seen)])
         THEN IF e \in OrderEvents(order.at + 1)
              THEN [order EXCEPT !.at = order.at + 1]
              ELSE NoOrder
         ELSE IF child /\ e.name \notin Range(order.seen)
         THEN [seen |-> Append(order.seen, e.name), at |-> StartSlot(e.name)]
         ELSE IF e = EndElement(parser.tag) /\ Len(order.seen) = Len(Children)
         THEN [order EXCEPT !.at = MsgLen]
         ELSE NoOrder
    ELSE NoOrder

Seen(a, i, d) == [att |-> a, ins |-> i, dev |-> d]
Lost == Seen("none", <<>>, NoEv)

Observe(c) ==
    IF c.op # "noise" /\ NextOrder(c) # NoOrder THEN Seen("perm", <<>>, NoEv)
    ELSE IF c.op # "noise" /\ att = "perm" THEN Lost
    ELSE
    CASE c.op = "noise" -> Seen(att, ins, dev)
      [] c.op \in {"deliver", "restart"} ->
            IF AtTop
            THEN IF BaseIdx(c) = 0 THEN Seen("wf", <<>>, NoEv) ELSE Lost
            ELSE IF c.op = "restart" \/ BaseIdx(c) = 0 \/ ins # <<>> \/ att = "dev"
                 THEN Lost
                 ELSE Seen(att, ins, dev)
      [] c.op = "junk" ->
            IF AtTop
            THEN IF c.ev.kind = "StartElement" /\ c.ev.name # parser.tag
                 THEN Seen("top", <<c.ev.name>>, NoEv)
                 ELSE IF c.ev.kind \in {"EndElement", "Characters"}
                 THEN Seen("top", <<>>, c.ev)
                 ELSE Lost
            ELSE IF att \notin {"wf", "ins", "top"} THEN Lost
            ELSE IF ins = <<>>
            THEN IF att = "top" THEN Lost
                 ELSE IF /\ idx \in InsertionPoints
                    /\ c.ev.kind = "StartElement"
                    /\ c.ev.name # WellFormed[idx + 1].name
                 THEN Seen("ins", <<c.ev.name>>, NoEv)
                 ELSE Seen("dev", <<>>, c.ev)
            ELSE IF c.ev.kind = "Characters" THEN Seen(att, ins, NoEv)
            ELSE IF /\ c.ev.kind = "StartElement"
                    /\ Len(ins) < MaxDepth
                    /\ c.ev.name \in {ins[1], "foo"}
            THEN Seen(att, Append(ins, c.ev.name), NoEv)
            ELSE IF c.ev.kind = "EndElement" /\ c.ev.name = ins[Len(ins)]
            THEN Seen(att, Front(ins), NoEv)
            ELSE Lost

(***************************************************************************)
(* Initial state: main has entered its loop and calls main_with_result,    *)
(* whose first statement is init_serial; the device is anywhere in a       *)
(* message.                                                                *)
(***************************************************************************)
Init ==
    /\ pc = "init_serial"
    /\ stack = <<>>
    /\ ret = Pending
    /\ args = <<>>
    /\ printed = <<>>
    /\ last = "start"
    /\ srcFailed = FALSE
    /\ idx \in 0..(MsgLen - 1)
    /\ vals = NoVals
    /\ att = "none"
    /\ ins = <<>>
    /\ dev = NoEv
    /\ order = NoOrder
    /\ quiet = Running(<<>>)
    /\ handed = "none"
    /\ dropped = FALSE
    /\ junk = 0

(* What a result x of next_tag is to its caller: nothing yet when next_tag *)
(* reads again, a significant event (a Start, an End or a Text), the error *)
(* of the source, or an event of another kind.                             *)
SignificantKinds == {"StartElement", "EndElement", "Characters"}
Handed(x) ==
    IF x = Again THEN "none"
    ELSE IF x.kind \in SignificantKinds THEN "significant"
    ELSE x.kind

(* The second run is the same program on the same stream with the          *)
(* ignorable events deleted: it takes the steps of the first, except that  *)
(* a read of an ignorable event is no read for it.                         *)
QuietRead(e) ==
    IF e.kind \in Ignorable THEN quiet
    ELSE IF quiet.stack = <<>> THEN quiet
    ELSE on_next(quiet.stack, e)
Together == quiet' = [stack |-> stack', ret |-> ret']

(* The observer at a call of run_parser. *)
Fresh ==
    /\ att' = "none"
    /\ ins' = <<>>
    /\ dev' = NoEv
    /\ order' = NoOrder
    /\ vals' = NoVals
    /\ dropped' = FALSE

Spend(budgeted, costly) ==
    /\ budgeted /\ costly => junk < MaxJunk
    /\ junk' = IF budgeted /\ costly THEN junk + 1 ELSE junk

(* Lines 175-186: init_serial with try!, then the EventReader, the grammar *)
(* and the client are built and the loop calls run_parser.                 *)
init_serial(budgeted) ==
    /\ pc = "init_serial"
    /\ \E ok \in BOOLEAN :
        /\ Spend(budgeted, ~ok)
        /\ pc' = IF ok THEN "read" ELSE "main_ret"
        /\ stack' = IF ok THEN <<enter_run_parser(<<>>)>> ELSE <<>>
    /\ srcFailed' = FALSE
    /\ ret' = Pending
    /\ printed' = <<>>
    /\ last' = "init_serial"
    /\ Fresh
    /\ Together
    /\ handed' = "none"
    /\ UNCHANGED <<args, idx>>

(* One call of self.next() (line 58) and the matching code that follows it. *)
(* Where junk is free every event is possible at every read, wherever the  *)
(* device is in its message: once the observer has lost track, the         *)
(* position is not kept.                                                   *)
next(budgeted) ==
    /\ pc = "read"
    /\ \E c \in Choices :
        LET r == on_next(stack, c.ev)
            seen == Observe(c)
            o == IF seen.att = "dev" /\ r.ret = Pending THEN Lost ELSE seen
        IN  /\ Spend(budgeted, Costly(c))
            /\ stack' = r.stack
            /\ ret' = r.ret
            /\ pc' = IF r.ret = Pending THEN "read" ELSE "ret"
            /\ srcFailed' = (srcFailed \/ c.ev.kind = "Err")
            /\ idx' = IF o.att \in {"none", "perm"} /\ ~budgeted THEN 0 ELSE NextIdx(c)
            /\ att' = o.att
            /\ ins' = o.ins
            /\ dev' = o.dev
            /\ order' = IF c.op = "noise" THEN order ELSE NextOrder(c)
            /\ vals' = IF o.att \in {"none", "perm"} THEN NoVals ELSE NextVals(c)
            /\ quiet' = QuietRead(c.ev)
            /\ handed' = Handed(next_tag(c.ev))
            /\ dropped' = (dropped \/ (c.ev.kind = "Err" /\ r.ret = Pending))
            /\ last' = IF next_tag(c.ev) = Again THEN "next_ignored" ELSE "next"
    /\ printed' = <<>>
    /\ UNCHANGED args

(* Lines 191-204: run_parser has returned. *)
main_with_result ==
    /\ pc = "ret"
    /\ LET b == IF ret.ok THEN record_arm(ret.data) ELSE parse_error_arm(ret) IN
        /\ pc' = b.pc
        /\ printed' = b.printed
        /\ args' = b.args
        /\ stack' = IF b.pc = "read" THEN <<enter_run_parser(<<>>)>> ELSE <<>>
    /\ ret' = Pending
    /\ last' = "main_with_result"
    /\ IF pc' = "read" THEN Fresh ELSE UNCHANGED <<vals, att, ins, dev, order, dropped>>
    /\ Together
    /\ handed' = "none"
    /\ UNCHANGED <<srcFailed, idx, junk>>

(* Lines 204-206: client.insert returns. *)
insert ==
    /\ pc = "insert"
    /\ \E ok \in BOOLEAN :
        LET b == insert_arm(ok) IN
        /\ pc' = b.pc
        /\ printed' = b.printed
        /\ args' = b.args
        /\ stack' = IF b.pc = "read" THEN <<enter_run_parser(<<>>)>> ELSE <<>>
        /\ last' = IF ok THEN "insert_ok" ELSE "insert_err"
    /\ ret' = Pending
    /\ Fresh
    /\ Together
    /\ handed' = "none"
    /\ UNCHANGED <<srcFailed, idx, junk>>

(* Lines 211-215: main_with_result has returned an Err, which main prints  *)
(* before it loops.                                                        *)
main ==
    /\ pc = "main_ret"
    /\ pc' = main_err_arm.pc
    /\ printed' = main_err_arm.printed
    /\ last' = "main"
    /\ handed' = "none"
    /\ UNCHANGED <<stack, ret, args, srcFailed, idx, vals, att, ins, dev, order, quiet,
                   dropped, junk>>

Next ==
    \/ init_serial(FALSE)
    \/ next(FALSE)
    \/ main_with_result
    \/ insert
    \/ main

Spec == Init /\ [][Next]_vars

(***************************************************************************)
(* The fair specification: the environment causes at most MaxJunk          *)
(* disturbances and otherwise keeps delivering well-formed messages with   *)
(* numeric readings; the program, a single synchronous thread, always      *)
(* takes its next step.                                                    *)
(***************************************************************************)
NextLive ==
    \/ init_serial(TRUE)
    \/ next(TRUE)
    \/ main_with_result
    \/ insert
    \/ main

LiveSpec == Init /\ [][NextLive]_vars /\ WF_vars(NextLive)

(***************************************************************************)
(* Properties.                                                             *)
(***************************************************************************)
Readings == {"total", "hot_water", "solar"}
OutOfSync == "XML stream out of sync with parser"
MatchFailures ==
    {"Junk event", "Wrong start tag", "Tag contents not found for tag parser", OutOfSync}
AtStartOfSession == stack = <<enter_run_parser(<<>>)>>
Reads == {"next", "next_ignored"}

(* The position right after Start(name) in a well-formed message. *)
AfterStart(name) ==
    CHOOSE k \in 1..MsgLen : WellFormed[k] = Slot("StartElement", name, "")
(* The positions at which the next event of a well-formed message is the   *)
(* Start of a child.                                                       *)
ChildAwaited ==
    {k \in 1..(MsgLen - 1) : WellFormed[k + 1].kind = "StartElement"}

(* The reading a text stands for, where it is a number. *)
IsNumber(t) == t \in {<<"5">>, <<"2", "0">>}
Reading(t) == IF t = <<"5">> THEN 5 ELSE 20

\* C1: a match attempt that reads one well-formed message from its Start(msg)
\* (each leaf holding one Text) returns exactly when End(msg) has been read,
\* neither earlier nor later, and returns the Record with exactly the five
\* entries time, temperature, total, hot_water and solar holding the message's
\* five texts.
C1_HappyPath ==
    att = "wf" =>
        /\ idx # 0 => pc = "read" /\ ret = Pending
        /\ idx = 0 => pc # "read"
        /\ pc = "ret" =>
            /\ ret.ok
            /\ DOMAIN ret.data = {"time", "temperature", "total", "hot_water", "solar"}
            /\ \A k \in DOMAIN ret.data : ret.data[k] = vals[k]

C1_Witness ==
    /\ pc = "ret" /\ att = "wf" /\ idx = 0 /\ ret.ok
    /\ ret.data["time"] = <<"x">> /\ ret.data["temperature"] = <<"5">>
    /\ ret.data["total"] = <<"5">> /\ ret.data["hot_water"] = <<"2", "0">>
    /\ ret.data["solar"] = <<"5">>

\* C2: once a read of the session's Event Source has returned an error, the
\* session loop reads no further event from that Event Source (the error
\* escapes to the supervisor, which reopens the transport first).
C2_FailedSourceNotReused ==
    [][srcFailed => last' \notin Reads \/ UNCHANGED vars]_vars

\* C3: when the stream, after finitely many disturbances, keeps delivering
\* well-formed messages with numeric readings, the session loop always
\* eventually issues a Sink insert again.
C3_IngestionResumes == []<>(pc = "insert")

\* C4: a match attempt that reads one well-formed message with unrecognized,
\* properly nested sibling elements inserted between children of msg returns
\* only at the End(msg) of the message, and returns the Record of the message
\* without the insertions.
C4_SiblingsSkipped ==
    att = "ins" /\ pc = "ret" => idx = 0 /\ ret = Ok(vals)

\* C5: a failure of run_parser with "Junk event", "Wrong start tag", "Tag
\* contents not found" or "out of sync" (a bare Text where a child Start is
\* awaited gives "out of sync") is followed by the session loop printing
\* "Parse error" and calling run_parser again on the same EventReader: no
\* init_serial, no insert, no return to main.
C5_MatchFailureLocal ==
    /\ [](pc = "ret" /\ att = "dev" /\ dev.kind = "Characters" /\ idx \in ChildAwaited
            => ret = string_error(OutOfSync))
    /\ [][pc = "ret" /\ ~ret.ok /\ ret.err \in MatchFailures =>
            /\ pc' = "read"
            /\ AtStartOfSession'
            /\ last' = "main_with_result"
            /\ printed' = <<"Parse error">>
            /\ args' = <<>>
            /\ srcFailed' = srcFailed]_vars

C5_Witness ==
    /\ pc = "read" /\ AtStartOfSession /\ last = "main_with_result"
    /\ printed = <<"Parse error">> /\ ~srcFailed

\* C6 as stated: a message whose ch1 is empty makes run_parser fail with
\* MissingContent ("Tag contents not found") or UnexpectedEvent ("Junk event",
\* "Wrong start tag").
C6_EmptyCh1MissingContent ==
    pc = "ret" /\ att = "dev" /\ idx = AfterStart("ch1") /\ dev = EndElement("ch1")
        => /\ ~ret.ok
           /\ ret.err \in {"Tag contents not found for tag parser", "Junk event",
                           "Wrong start tag"}

\* C6 amended: a message whose ch1 is empty (Start(ch1) immediately followed
\* by End(ch1)) makes run_parser fail with "XML stream out of sync with
\* parser" on that End(ch1), and the session loop prints "Parse error" and
\* calls run_parser again.
C6_EmptyCh1OutOfSync ==
    /\ [](pc = "ret" /\ att = "dev" /\ idx = AfterStart("ch1") /\ dev = EndElement("ch1")
            => ret = string_error(OutOfSync))
    /\ [][pc = "ret" /\ att = "dev" /\ idx = AfterStart("ch1") /\ dev = EndElement("ch1")
            => pc' = "read" /\ AtStartOfSession' /\ printed' = <<"Parse error">>]_vars

C6_Witness ==
    /\ pc = "ret" /\ att = "dev" /\ idx = AfterStart("ch1") /\ dev = EndElement("ch1")
    /\ ~ret.ok

\* C7: the program run on a stream and the program run on the same stream with
\* the ignorable events (document start, processing instruction, raw block,
\* comment, whitespace-only text) deleted are, after every read, suspended at
\* the same place with the same partial results, and run_parser returns in
\* both on the same significant event with the same value.
C7_NoiseTransparent ==
    quiet = [stack |-> stack, ret |-> ret]

C7_Witness ==
    /\ pc = "read" /\ last = "next_ignored" /\ att = "wf"
    /\ TopFrame(stack).at = "126"
    /\ quiet.stack = stack

\* C8: every well-formed message with numeric readings is followed by one
\* insert carrying its total, hot-water and solar readings in this order; an
\* insert is only issued for a Record run_parser returned; and while an insert
\* is pending no event is read: the next step is its completion, after which
\* run_parser is called for the next message.
C8_Forwarding ==
    /\ [](pc = "insert" /\ att = "wf" =>
            args = <<Reading(vals["total"]), Reading(vals["hot_water"]),
                     Reading(vals["solar"])>>)
    /\ [][pc = "ret" /\ att = "wf" /\ idx = 0 /\ (\A k \in Readings : IsNumber(vals[k]))
            => pc' = "insert"]_vars
    /\ [][pc' = "insert" => pc = "insert" \/ (pc = "ret" /\ ret.ok)]_vars
    /\ [][pc = "insert" =>
            /\ last' \in {"insert_ok", "insert_err"}
            /\ pc' = "read" /\ AtStartOfSession' /\ idx' = idx]_vars
    /\ [][last' \in Reads => pc = "read" \/ UNCHANGED vars]_vars

C8_Witness ==
    /\ pc = "insert" /\ att = "wf" /\ idx = 0
    /\ vals["total"] = <<"2", "0">> /\ vals["hot_water"] = <<"5">>
    /\ vals["solar"] = <<"5">>
    /\ args = <<20, 5, 5>>

\* C9: when run_parser returns a Record in which the total, hot-water or solar
\* text is no number, no insert is issued and main_with_result returns the
\* error to main, which prints it and calls main_with_result again, whose
\* init_serial reopens the transport before a new EventReader is read.
C9_NumericFailureEscalates ==
    /\ [][pc = "ret" /\ ret.ok
              /\ (\E k \in Readings \cap DOMAIN ret.data : ~IsNumber(ret.data[k]))
            => pc' = "main_ret" /\ args' = <<>> /\ stack' = <<>>]_vars
    /\ [][pc = "main_ret" =>
            pc' = "init_serial" /\ printed' = <<"main_with_result error">>]_vars
    /\ [][pc = "init_serial" /\ pc' = "read" =>
            AtStartOfSession' /\ ~srcFailed' /\ last' = "init_serial"]_vars

C9_Witness ==
    /\ pc = "init_serial" /\ last = "main"
    /\ printed = <<"main_with_result error">>
    /\ att = "wf" /\ idx = 0 /\ vals["hot_water"] = <<"x">>

\* C10: when client.insert returns an error, the session loop prints it and
\* calls run_parser again on the same EventReader; it does not return to main.
C10_SinkFailureContained ==
    [][pc = "insert" /\ last' = "insert_err" =>
            /\ printed' = <<"Error connecting to Festivus">>
            /\ pc' = "read"
            /\ AtStartOfSession'
            /\ srcFailed' = srcFailed]_vars

C10_Witness ==
    /\ pc = "read" /\ AtStartOfSession /\ last = "insert_err"
    /\ printed = <<"Error connecting to Festivus">>

\* C11: the process never terminates: it is always in main's loop, suspended
\* at init_serial, at a read, at the return of run_parser, at an insert or at
\* the return of main_with_result, and always has a next step; an error leaves
\* main_with_result only from init_serial or from the numeric parses; main
\* prints it and calls main_with_result again, which calls init_serial, and a
\* successful init_serial is followed by run_parser on a new EventReader,
\* however many times this has happened before.
C11_SupervisorNeverStops ==
    /\ [](pc \in {"init_serial", "read", "ret", "insert", "main_ret"})
    /\ [](ENABLED Next)
    /\ [][pc' = "main_ret" =>
            \/ pc = "main_ret"
            \/ pc = "init_serial"
            \/ pc = "ret" /\ ret.ok]_vars
    /\ [][pc = "main_ret" =>
            /\ last' = "main"
            /\ printed' = <<"main_with_result error">>
            /\ pc' = "init_serial"]_vars
    /\ [][pc = "init_serial" =>
            /\ last' = "init_serial"
            /\ \/ pc' = "main_ret"
               \/ pc' = "read" /\ AtStartOfSession' /\ ~srcFailed']_vars

C11_Witness ==
    /\ pc = "init_serial" /\ last = "main" /\ att = "none"
    /\ printed = <<"main_with_result error">> /\ stack = <<>>

\* C12: every result next_tag returns to run_parser, parse_tag or
\* read_to_tag_end is a StartElement, an EndElement or a Characters event (or
\* the error of the source); no event of another kind, EndDocument in
\* particular, reaches a caller.
C12_OnlySignificantDelivered ==
    handed \in {"none", "significant", "Err"}

\* C13: every error is followed by a line reporting an error before the next
\* message is matched: a match attempt that has read an Err of the source
\* returns no Record (it fails, and the failure is printed); every failure of
\* run_parser is printed by the session loop; the errors that leave
\* main_with_result (init_serial, numeric parse) are printed by main; an Err
\* of client.insert is printed.
C13_EveryErrorLogged ==
    /\ [](pc = "ret" /\ ret.ok => ~dropped)
    /\ [][pc = "ret" /\ ~ret.ok => printed' = <<"Parse error">>]_vars
    /\ [][pc = "main_ret" => printed' = <<"main_with_result error">>]_vars
    /\ [][last' = "insert_err" => printed' = <<"Error connecting to Festivus">>]_vars

\* C14: a match attempt whose first significant event is the Start of an
\* element other than msg reads on exactly until the End that closes this
\* element and then fails with "Wrong start tag", so that the next attempt
\* starts right after the element; one whose first significant event is an
\* End or a Text fails with "Junk event" on that event.
C14_WrongTopDrained ==
    att = "top" =>
        /\ dev = NoEv =>
            /\ pc = "read" <=> ins # <<>>
            /\ pc = "ret" => ret = string_error("Wrong start tag")
        /\ dev # NoEv => pc = "ret" /\ ret = string_error("Junk event")

\* C15: whatever failed before it, every message the device begins is read
\* from its Start(msg) by a match attempt of its own (the attempts have
\* realigned to it), so that, delivered whole, it yields its Record (C1) and
\* is forwarded (C8).
C15_ResyncAtNextMessage ==
    [][last' = "next" /\ idx # 1 /\ idx' = 1 => att' = "wf"]_vars

(* The program is inside read_to_tag_end(SkippedTag). *)
Skipping ==
    pc = "read" /\ stack # <<>> /\ TopFrame(stack).at \in {"107", "126", "151", "159"}
SkippedTag ==
    LET f == TopFrame(stack) IN
    IF f.at \in {"107", "151"} THEN f.skip ELSE Deref(f.p).tag
(* The loop of read_to_tag_end goes round: same frames, nothing returned. *)
GoesRound == stack' = stack /\ ret' = Pending

\* C16: read_to_tag_end(tag) breaks at the first EndElement named tag and at
\* nothing else.  Inside an element the observer follows, it goes round on a
\* nested Start, on a Text and on the End of a nested element of another
\* name, and breaks on the End of a nested element named tag although the
\* element it skips is still open; in a well-formed message the End it waits
\* for is the next event and it breaks there; it goes round on an Err and on
\* an event that is no Start, End or Text.
C16_SkipMatchesNameOnly ==
    /\ [][Skipping /\ last' = "next" /\ ins # <<>> /\ att' = att /\ att \in {"ins", "top"}
            => (GoesRound <=> ~(Len(ins') < Len(ins) /\ ins[Len(ins)] = SkippedTag))]_vars
    /\ [][Skipping /\ last' = "next" /\ att = "wf" /\ att' = "wf"
            => WellFormed[idx + 1] = Slot("EndElement", SkippedTag, "") /\ ~GoesRound]_vars
    /\ [][Skipping /\ last' = "next" /\ handed' # "significant" => GoesRound]_vars

C16_Witness ==
    /\ att = "ins" /\ ins = <<"foo">> /\ last = "next" /\ pc = "read"
    /\ TopFrame(stack).at = "140"

\* C17: when the match of a child fails, run_parser returns that failure to
\* the session loop in the same step, whatever the depth: a leaf (Contents,
\* always a child) that reads anything but a Text gives "Tag contents not
\* found", a sequence inside msg that reads anything but a Start gives "out
\* of sync"; no enclosing frame is left to read on or to skip to its own End,
\* the value returned holds no Record, and no event is read between the
\* failure and the next call of run_parser.
C17_ChildFailureAborts ==
    /\ [](stack # <<>> =>
            /\ TopFrame(stack).at # "145"
            /\ \A k \in 1..(Len(stack) - 1) : stack[k].at = "145")
    /\ [][pc = "read" /\ TopFrame(stack).at = "122" /\ handed' # "none"
              /\ ~(Len(stack') = Len(stack) /\ TopFrame(stack').at = "126")
            => /\ pc' = "ret" /\ stack' = <<>>
               /\ ret' = string_error("Tag contents not found for tag parser")]_vars
    /\ [][pc = "read" /\ Len(stack) >= 2 /\ TopFrame(stack).at = "140" /\ handed' # "none"
              /\ ~(Len(stack') >= Len(stack) /\ stack'[Len(stack)].at \in {"145", "151"})
            => /\ pc' = "ret" /\ stack' = <<>>
               /\ ret' = string_error(OutOfSync)]_vars
    /\ [][pc = "ret" /\ ~ret.ok =>
            idx' = idx /\ last' \notin Reads /\ pc' = "read" /\ AtStartOfSession']_vars

C17_Witness ==
    /\ pc = "ret" /\ stack = <<>> /\ att = "dev"
    /\ idx = AfterStart("ch2") + 1 /\ dev = EndElement("watts")
    /\ ret = string_error("Tag contents not found for tag parser")

\* C18: in a message that holds the five children of msg, each once and each
\* as in a well-formed message, in another order than time, tmpr, ch1, ch2,
\* ch3, a child is matched only when it is the child awaited (the subparsers
\* are taken one at a time, in the order of the grammar) and skipped with
\* read_to_tag_end otherwise; run_parser returns nothing before End(msg) and
\* fails there with "XML stream out of sync with parser": no Record.
C18_ChildOrderEnforced ==
    att = "perm" =>
        LET f == stack[1]
            cur == order.seen[Len(order.seen)]
            awaited == Children[f.i]
        IN
        /\ order.at < MsgLen =>
            /\ pc = "read" /\ ret = Pending
            /\ f.p = <<>>
            /\ f.at \in {"140", "145", "151"}
            /\ f.at = "145" => cur = awaited
            /\ f.at = "151" => cur # awaited /\ f.skip = cur /\ Len(stack) = 1
            /\ f.at = "140" => order.at = EndSlot(cur)
        /\ order.at = MsgLen =>
            pc = "ret" /\ ret = string_error(OutOfSync)

C18_Witness ==
    /\ att = "perm" /\ pc = "ret" /\ order.at = MsgLen
    /\ order.seen = <<"time", "tmpr", "ch1", "ch3", "ch2">>
    /\ ret = string_error(OutOfSync)

\* C19: every Record run_parser returns, whatever events it was matched
\* from, has the keys total, hot_water and solar that lines 200-202 index, so
\* the process never panics on a missing key.
C19_LookupsNeverFail ==
    /\ pc = "ret" /\ ret.ok => Readings \subseteq DOMAIN ret.data
    /\ pc # "panicked"

C19_Witness ==
    /\ pc = "ret" /\ ret.ok /\ att = "none" /\ handed = "significant"
    /\ DOMAIN ret.data = Fields

====
